---------------------------- MODULE Spec2Model ----------------------------
(***************************************************************************)
(* A model of the `stockfish` crate: the session (struct Stockfish) that   *)
(* drives a UCI engine subprocess through a line channel.                  *)
(*                                                                         *)
(* A Rust String is a sequence of one-character strings, so that split,    *)
(* join, contains, parse and to_string are computed as the code computes   *)
(* them.  A line in flight is a record [text, op, re]: text is what the    *)
(* code sees; op (the number of the operation whose command the line       *)
(* answers) and re (that command's first word) are history fields no       *)
(* operation of the session reads.                                         *)
(***************************************************************************)
EXTENDS Integers, Sequences, FiniteSets

(***************************************************************************)
(* Bounds of the model.                                                    *)
(***************************************************************************)
\* public operations called on one session
MaxOps == 3
\* info lines one search emits before its bestmove line
MaxInfo == 2

(***************************************************************************)
(* String literals of the source and of the protocol.                      *)
(***************************************************************************)
SP == " "
NL == "\n"
S_isready == <<"i", "s", "r", "e", "a", "d", "y">>
S_readyok == <<"r", "e", "a", "d", "y", "o", "k">>
S_ucinewgame == <<"u", "c", "i", "n", "e", "w", "g", "a", "m", "e">>
S_d == <<"d">>
S_go == <<"g", "o">>
S_stop == <<"s", "t", "o", "p">>
S_quit == <<"q", "u", "i", "t">>
S_Fen == <<"F", "e", "n", ":">>
S_Checkers == <<"C", "h", "e", "c", "k", "e", "r", "s">>
S_bestmove == <<"b", "e", "s", "t", "m", "o", "v", "e">>
S_score == <<"s", "c", "o", "r", "e">>
S_cp == <<"c", "p">>
S_mate == <<"m", "a", "t", "e">>
S_position_fen_ == <<"p", "o", "s", "i", "t", "i", "o", "n", " ", "f", "e", "n", " ">>
S_position_startpos == <<"p", "o", "s", "i", "t", "i", "o", "n", " ", "s", "t", "a", "r", "t", "p", "o", "s">>
S__moves_ == <<" ", "m", "o", "v", "e", "s", " ">>
S_go_depth_ == <<"g", "o", " ", "d", "e", "p", "t", "h", " ">>
S__wtime_ == <<" ", "w", "t", "i", "m", "e", " ">>
S__btime_ == <<" ", "b", "t", "i", "m", "e", " ">>

(***************************************************************************)
(* std::string / std::str operations, on sequences of characters.          *)
(***************************************************************************)
None == [none |-> TRUE]

Some(v) == [none |-> FALSE, some |-> v]

\* str::split(' '): the segments between single spaces; "" gives one empty
\* segment, two adjacent spaces give an empty segment between them.
RECURSIVE SplitFrom(_, _, _)
SplitFrom(s, i, cur) ==
    IF i > Len(s) THEN <<cur>>
    ELSE IF s[i] = SP THEN <<cur>> \o SplitFrom(s, i + 1, <<>>)
    ELSE SplitFrom(s, i + 1, Append(cur, s[i]))

Split(s) == SplitFrom(s, 1, <<>>)

\* [&str]::join(sep)
RECURSIVE Join(_, _)
Join(segs, sep) ==
    IF Len(segs) = 0 THEN <<>>
    ELSE IF Len(segs) = 1 THEN segs[1]
    ELSE segs[1] \o <<sep>> \o Join(Tail(segs), sep)

\* str::contains(&str)
Contains(s, pat) ==
    \E i \in 0..(Len(s) - Len(pat)) : SubSeq(s, i + 1, i + Len(pat)) = pat

\* str::contains(char)
ContainsChar(s, c) == \E i \in 1..Len(s) : s[i] = c

DigitChars == <<"0", "1", "2", "3", "4", "5", "6", "7", "8", "9">>

IsDigit(c) == \E d \in 1..10 : DigitChars[d] = c

DigitVal(c) == (CHOOSE d \in 1..10 : DigitChars[d] = c) - 1

\* u32::to_string
RECURSIVE U32ToString(_)
U32ToString(n) ==
    IF n < 10 THEN <<DigitChars[n + 1]>>
    ELSE U32ToString(n \div 10) \o <<DigitChars[(n % 10) + 1]>>

I32Max == 2147483647

I32Min == (0 - I32Max) - 1

\* the digits of s added to acc, most significant first; None on overflow
\* of i32.  A negative number is accumulated downwards, as the library does.
RECURSIVE DigitsVal(_, _, _)
DigitsVal(s, acc, neg) ==
    IF Len(s) = 0 THEN Some(acc)
    ELSE LET d == DigitVal(Head(s))
             q == I32Max \div 10
             r == I32Max % 10
         IN  IF neg
             THEN IF acc < 0 - q \/ (acc = 0 - q /\ d > r + 1) THEN None
                  ELSE DigitsVal(Tail(s), acc * 10 - d, neg)
             ELSE IF acc > q \/ (acc = q /\ d > r) THEN None
                  ELSE DigitsVal(Tail(s), acc * 10 + d, neg)

\* str::parse::<i32>(): an optional sign, then one or more decimal digits,
\* the value within i32; anything else is Err (None here).
ParseI32(s) ==
    LET signed == Len(s) > 0 /\ s[1] \in {"+", "-"}
        digits == IF signed THEN Tail(s) ELSE s
        ok     == Len(digits) > 0 /\ \A i \in 1..Len(digits) : IsDigit(digits[i])
    IN  IF ok THEN DigitsVal(digits, 0, signed /\ s[1] = "-") ELSE None

\* value * color_multiplier in i32, for a multiplier of 1 or -1: only
\* i32::MIN * -1 leaves the type, and wraps to i32::MIN
I32Mul(a, b) == IF a = I32Min /\ b = -1 THEN I32Min ELSE a * b

(***************************************************************************)
(* Texts of the protocol: what the engine prints and what callers pass.    *)
(***************************************************************************)
\* the default position, src/src/stockfish.rs:107
StartFen == <<"r", "n", "b", "q", "k", "b", "n", "r", "/", "p", "p", "p", "p", "p", "p", "p", "p", "/", "8", "/", "8", "/", "8", "/", "8", "/", "P", "P", "P", "P", "P", "P", "P", "P", "/", "R", "N", "B", "Q", "K", "B", "N", "R", " ", "w", " ", "K", "Q", "k", "q", " ", "-", " ", "0", " ", "1">>
FenW == <<"k", "7", "/", "8", "/", "8", "/", "8", "/", "8", "/", "8", "/", "8", "/", "K", "7", " ", "w", " ", "-", " ", "-", " ", "0", " ", "1">>
FenB == <<"k", "7", "/", "8", "/", "8", "/", "8", "/", "8", "/", "8", "/", "8", "/", "K", "7", " ", "b", " ", "-", " ", "-", " ", "0", " ", "1">>
Banner == <<"S", "t", "o", "c", "k", "f", "i", "s", "h", " ", "1", "6", " ", "b", "y", " ", "t", "h", "e", " ", "S", "t", "o", "c", "k", "f", "i", "s", "h", " ", "d", "e", "v", "e", "l", "o", "p", "e", "r", "s">>
S_KeyLine == <<"K", "e", "y", ":", " ", "8", "F">>
S_CheckersLine == <<"C", "h", "e", "c", "k", "e", "r", "s", ":", " ">>
S_info_cp == <<"i", "n", "f", "o", " ", "s", "c", "o", "r", "e", " ", "c", "p", " ", "2", "5">>
S_info_mate == <<"i", "n", "f", "o", " ", "s", "c", "o", "r", "e", " ", "m", "a", "t", "e", " ", "-", "2">>
S_info_noscore == <<"i", "n", "f", "o", " ", "d", "e", "p", "t", "h", " ", "1", "2">>
S_best_ponder == <<"b", "e", "s", "t", "m", "o", "v", "e", " ", "e", "2", "e", "4", " ", "p", "o", "n", "d", "e", "r", " ", "e", "7", "e", "5">>
S_best == <<"b", "e", "s", "t", "m", "o", "v", "e", " ", "g", "7", "g", "8", "q">>
S_ponder == <<"p", "o", "n", "d", "e", "r">>
S_e2e4 == <<"e", "2", "e", "4">>
S_e7e5 == <<"e", "7", "e", "5">>
S_setoption_name_ == <<"s", "e", "t", "o", "p", "t", "i", "o", "n", " ", "n", "a", "m", "e", " ">>
S__value_ == <<" ", "v", "a", "l", "u", "e", " ">>
S_Hash == <<"H", "a", "s", "h">>
S_Threads == <<"T", "h", "r", "e", "a", "d", "s">>
S_UCI_LimitStrength == <<"U", "C", "I", "_", "L", "i", "m", "i", "t", "S", "t", "r", "e", "n", "g", "t", "h">>
S_Elo == <<"E", "l", "o">>
S_Skill_Level == <<"S", "k", "i", "l", "l", " ", "L", "e", "v", "e", "l">>
S_true == <<"t", "r", "u", "e">>
S_false == <<"f", "a", "l", "s", "e">>
S_startpos == <<"s", "t", "a", "r", "t", "p", "o", "s">>
S_position == <<"p", "o", "s", "i", "t", "i", "o", "n">>
S_fen == <<"f", "e", "n">>
S_moves == <<"m", "o", "v", "e", "s">>
S_setoption == <<"s", "e", "t", "o", "p", "t", "i", "o", "n">>

\* FEN arguments of set_fen_position
Fens == {FenW, FenB}

\* arguments of play_moves
MoveLists == {<<>>, <<S_e2e4, S_e7e5>>}

\* arguments of set_depth
Depths == {20}

\* arguments of go_based_on_times
WhiteTimes == {None, Some(50000)}

BlackTimes == {None, Some(10)}

\* lines a search prints before its last line, and its last line
InfoLines == {S_info_cp}

BestLines == {S_best_ponder}

(***************************************************************************)
(* State.                                                                  *)
(***************************************************************************)
VARIABLES
    \* the subprocess
    stdin,          \* commands written to it and not yet read, [text, op]
    pos,            \* the position it is set to (FEN text)
    outq,           \* lines of the reply its command loop is printing
    search,         \* its search thread: [running, op, left]
    exited,         \* it has quit
    \* process I/O plumbing
    pipe,           \* its output stream: lines printed, not yet read
    eof,            \* the reader thread has ended and dropped the sender
    chan,           \* the mpsc channel: lines sent, not yet received
    \* struct Stockfish and the frame of the call in progress
    depth,          \* self.depth
    version,        \* self.version
    pc,             \* where the caller's thread is
    op,             \* the public operation called last
    arg,            \* its argument, where a later step needs it
    fen,            \* get_fen: fen
    previous_line,  \* get_engine_output: previous_line
    lines,          \* get_board_display: lines
    ret,            \* what the operation returned, once it has
    \* history
    nops,           \* operations called
    last,           \* the last line read_line returned to the operation
    fenLine,        \* the line get_fen took its payload from
    owed,           \* lines printed and not yet returned by read_line
    inOrder,        \* every read_line so far returned the oldest line owed
    readForeign,    \* the operation has read a line answering an earlier one
    before,         \* get_fen, ensure_ready: the operation called before it and
                    \* its result
    seen            \* get_engine_output: the lines its loop has read

vars == <<stdin, pos, outq, search, exited, pipe, eof, chan, depth, version,
          pc, op, arg, fen, previous_line, lines, ret,
          nops, last, fenLine, owed, inOrder, readForeign, before, seen>>

engineVars == <<stdin, pos, outq, search, exited>>

sessionVars == <<depth, version, pc, op, arg, fen, previous_line, lines, ret,
                 nops, last, fenLine, inOrder, readForeign, before, seen>>

NoLine == [text |-> <<>>, op |-> 0, re |-> <<>>]

NoBefore == [op |-> "", arg |-> <<>>, ok |-> FALSE, val |-> <<>>]

NoSearch == [running |-> FALSE, op |-> 0, left |-> 0]

(***************************************************************************)
(* The subprocess: a UCI engine, at its boundary (what it prints for each  *)
(* command it reads).                                                      *)
(***************************************************************************)
\* the board picture of "d", cut to one rank
BoardLine(p) == <<" ", "|", " ", p[1], " ", "|">>

\* what "d" prints: board, then "Fen: <fen>", "Key: ...", "Checkers: ..."
Dump(p) == << <<>>, BoardLine(p), S_Fen \o <<SP>> \o p, S_KeyLine, S_CheckersLine >>

\* the position after one move: the other side is to move
ToggleSide(p) ==
    LET f == Split(p)
    IN  Join([i \in 1..Len(f) |->
                 IF i = 2 THEN (IF f[2] = <<"w">> THEN <<"b">> ELSE <<"w">>) ELSE f[i]],
             SP)

RECURSIVE ApplyMoves(_, _)
ApplyMoves(p, n) == IF n = 0 THEN p ELSE ApplyMoves(ToggleSide(p), n - 1)

\* index of the first segment equal to w, 0 if none
IndexOf(segs, w) ==
    IF \E i \in 1..Len(segs) : segs[i] = w
    THEN CHOOSE i \in 1..Len(segs) : segs[i] = w /\ \A j \in 1..(i - 1) : segs[j] # w
    ELSE 0

\* the position a "position ..." command sets
PositionOf(toks) ==
    IF Len(toks) >= 2 /\ toks[2] = S_startpos THEN StartFen
    ELSE LET m == IndexOf(toks, S_moves)
             e == IF m = 0 THEN Len(toks) ELSE m - 1
             n == IF m = 0 THEN 0
                  ELSE Cardinality({i \in (m + 1)..Len(toks) : toks[i] # <<>>})
         IN  ApplyMoves(Join(SubSeq(toks, 3, e), SP), n)

\* the lines of a reply to command c
Reply(texts, c) ==
    [i \in 1..Len(texts) |-> [text |-> texts[i], op |-> c.op, re |-> Split(c.text)[1]]]

\* The command loop reads the next command once the reply to the last one
\* is printed.
EngineStep ==
    /\ ~exited
    /\ stdin # <<>>
    /\ outq = <<>>
    /\ LET c    == Head(stdin)
           toks == Split(c.text)
       IN  /\ stdin' = IF toks[1] = S_quit THEN <<>> ELSE Tail(stdin)
           /\ exited' = (toks[1] = S_quit)
           /\ outq' = IF toks[1] = S_isready THEN Reply(<<S_readyok>>, c)
                      ELSE IF toks[1] = S_d THEN Reply(Dump(pos), c)
                      ELSE <<>>
           /\ pos' = IF toks[1] = S_position THEN PositionOf(toks) ELSE pos
           /\ search' = IF toks[1] = S_go
                        THEN [running |-> TRUE, op |-> c.op, left |-> MaxInfo]
                        ELSE IF toks[1] = S_quit THEN NoSearch
                        ELSE search
    /\ UNCHANGED <<pipe, eof, chan, owed>>
    /\ UNCHANGED sessionVars

\* a line goes to the output stream, which holds one line: the next write
\* waits until the reader thread has taken it
Emit(l) ==
    /\ pipe = <<>>
    /\ pipe' = Append(pipe, l)
    /\ owed' = Append(owed, l)

\* the command loop prints the next line of its reply
EnginePrint ==
    /\ ~exited
    /\ outq # <<>>
    /\ Emit(Head(outq))
    /\ outq' = Tail(outq)
    /\ UNCHANGED <<stdin, pos, search, exited, eof, chan>>
    /\ UNCHANGED sessionVars

\* the search thread prints an info line
SearchInfo ==
    /\ ~exited
    /\ search.running
    /\ search.left > 0
    /\ \E t \in InfoLines : Emit([text |-> t, op |-> search.op, re |-> S_go])
    /\ search' = [search EXCEPT !.left = @ - 1]
    /\ UNCHANGED <<stdin, pos, outq, exited, eof, chan>>
    /\ UNCHANGED sessionVars

\* the search thread ends (on its own or stopped) and prints its last line;
\* it has printed an info line by then
SearchDone ==
    /\ ~exited
    /\ search.running
    /\ search.left < MaxInfo
    /\ \E t \in BestLines : Emit([text |-> t, op |-> search.op, re |-> S_go])
    /\ search' = NoSearch
    /\ UNCHANGED <<stdin, pos, outq, exited, eof, chan>>
    /\ UNCHANGED sessionVars

(***************************************************************************)
(* The reader thread: the closure given to InteractiveProcess::new.        *)
(***************************************************************************)
\* what the closure does with a line it is given: tx.send(line)
Forward(c, line) == Append(c, line)

\* one line of the subprocess's output
Reader ==
    /\ ~eof
    /\ pipe # <<>>
    /\ chan' = Forward(chan, Head(pipe))
    /\ pipe' = Tail(pipe)
    /\ UNCHANGED <<eof, owed>>
    /\ UNCHANGED engineVars
    /\ UNCHANGED sessionVars

\* the output stream is closed and read to its end: the thread ends and
\* the closure, with tx, is dropped
ReaderEof ==
    /\ ~eof
    /\ exited
    /\ pipe = <<>>
    /\ eof' = TRUE
    /\ UNCHANGED <<pipe, chan, owed>>
    /\ UNCHANGED engineVars
    /\ UNCHANGED sessionVars

(***************************************************************************)
(* engine_eval.rs, engine_output.rs: the result model.                     *)
(***************************************************************************)
\* a match whose last arm takes every other token for a mate score
LenientDescriptor(str) == IF str = S_cp THEN "Centipawn" ELSE "Mate"

\* EvalType::from_descriptor; "panic" stands for the panic of its last arm
from_descriptor(str) ==
    IF str = S_cp THEN "Centipawn" ELSE IF str = S_mate THEN "Mate" ELSE "panic"

\* impl Display for EvalType
EvalType_fmt(t) == IF t = "Centipawn" THEN S_cp ELSE S_mate

\* EngineEval::new, as get_engine_output calls it
EngineEval_new(eval_type, value) == [eval_type |-> eval_type, value |-> value]

\* EngineOutput::new, as get_engine_output calls it: no pondered move is
\* given to it
EngineOutput_new(eval, best_move) ==
    [eval |-> eval, best_move |-> best_move, pondered_move |-> None]

(***************************************************************************)
(* stockfish.rs: the pure parts of the session's handlers.                 *)
(***************************************************************************)
\* new: the version is the second segment of the first line
VersionOf(first_line) ==
    LET segs == Split(first_line)
    IN  IF Len(segs) >= 2 THEN Some(segs[2]) ELSE None

\* a loop test the wrong way round
IsNotReadyOk(line) == line # S_readyok

\* ensure_ready: the loop ends on this line
IsReadyOk(line) == line = S_readyok

\* get_fen, get_board_display: the value line
IsFenLine(line) == Split(line)[1] = S_Fen

\* a join that keeps the first segment
WholeLine(line) == Join(Split(line), SP)

\* get_fen: segments.collect().join(" ") after the first segment
FenPayload(line) == Join(Tail(Split(line)), SP)

\* a drain that ends one line early
IsKeyLine(line) == Contains(line, <<"K", "e", "y">>)

\* get_fen: the drain ends on this line
IsDrainEnd(line) == Contains(line, S_Checkers)

\* a multiplier that never flips
AlwaysWhite(f) == 1

\* get_engine_output: color_multiplier
color_multiplier(f) == IF ContainsChar(f, "w") THEN 1 ELSE -1

\* get_engine_output: first_segment == "bestmove"
IsTerminal(line) == Split(line)[1] = S_bestmove

\* a slot that keeps the last line with a score in it
RememberScored(prev, line) ==
    IF Contains(line, S_score) \/ prev.none THEN Some(line) ELSE prev

\* get_engine_output: what the single slot holds after a non-terminal line
Remember(prev, line) == Some(line)

\* a loop with no break: the last "score" segment wins
LastScoreIndex(previous_segments) ==
    IF \E i \in 1..Len(previous_segments) : previous_segments[i] = S_score
    THEN CHOOSE i \in 1..Len(previous_segments) :
             /\ previous_segments[i] = S_score
             /\ \A j \in (i + 1)..Len(previous_segments) : previous_segments[j] # S_score
    ELSE 0

\* get_engine_output: the segment the for loop breaks at, 0 if it never does
ScoreIndex(previous_segments) == IndexOf(previous_segments, S_score)

Panic == [panic |-> TRUE]

\* get_engine_output: from the terminal line to the result; every unwrap,
\* expect and index of the code is a panic here
Extract(prev, line, f) ==
    LET segments == Split(line)
    IN  IF prev.none THEN Panic
        ELSE LET previous_segments == Split(prev.some)
                 i == ScoreIndex(previous_segments)
             IN  IF i = 0 THEN Panic
                 ELSE IF i + 2 > Len(previous_segments) THEN Panic
                 ELSE IF ParseI32(previous_segments[i + 2]).none THEN Panic
                 ELSE IF from_descriptor(previous_segments[i + 1]) = "panic" THEN Panic
                 ELSE IF Len(segments) < 2 THEN Panic
                 ELSE [panic |-> FALSE,
                       out |-> EngineOutput_new(
                                  EngineEval_new(
                                      from_descriptor(previous_segments[i + 1]),
                                      I32Mul(ParseI32(previous_segments[i + 2]).some,
                                             color_multiplier(f))),
                                  segments[2])]

\* a position command without its "fen" word
BareFenCommand(f) == S_position \o <<SP>> \o f

\* set_fen_position: the command written
SetFenCommand(f) == S_position_fen_ \o f

\* a command that plays the moves from the start position
FromStartpos(f, moves) == S_position_startpos \o S__moves_ \o moves

\* play_move, play_moves: the command written after the fetch
PositionCommand(f, moves) == S_position_fen_ \o f \o S__moves_ \o moves

\* go: the command written
GoCommand(d) == S_go_depth_ \o U32ToString(d)

\* a command with black's budget first
BtimeFirst(white_time, black_time) ==
    S_go
    \o (IF black_time.none THEN <<>> ELSE S__btime_ \o U32ToString(black_time.some))
    \o (IF white_time.none THEN <<>> ELSE S__wtime_ \o U32ToString(white_time.some))

\* go_based_on_times: the command written
GoTimesCommand(white_time, black_time) ==
    S_go
    \o (IF white_time.none THEN <<>> ELSE S__wtime_ \o U32ToString(white_time.some))
    \o (IF black_time.none THEN <<>> ELSE S__btime_ \o U32ToString(black_time.some))

\* set_option: the command written
OptionCommand(option_name, option_value) ==
    S_setoption_name_ \o option_name \o S__value_ \o option_value

(***************************************************************************)
(* stockfish.rs: writing and reading.                                      *)
(***************************************************************************)
\* uci_send succeeds while the subprocess is there to be written to
CanSend == ~exited

\* a command as written: its text, the number of the operation that wrote
\* it and the arguments its text was built from (history fields the engine
\* does not read)
CmdOf(t, n, from) == [text |-> t, op |-> n, of |-> from]

Cmd(t, n) == CmdOf(t, n, <<>>)

\* uci_send of each of cmds, in order, by operation number n; the first was
\* built from the arguments `from`
WrittenFrom(cmds, n, from) ==
    stdin \o [i \in 1..Len(cmds) |->
                 IF i = 1 THEN CmdOf(cmds[i], n, from) ELSE Cmd(cmds[i], n)]

Written(cmds, n) == WrittenFrom(cmds, n, <<>>)

\* a receiver that yields the newest line
RecvNewest(c) == [line |-> c[Len(c)], rest |-> SubSeq(c, 1, Len(c) - 1)]

\* read_line: the line receiver.recv() yields, and what stays in the channel
Recv(c) == [line |-> Head(c), rest |-> Tail(c)]

OkOf(v) == [done |-> TRUE, ok |-> TRUE, val |-> v]

Err == [done |-> TRUE, ok |-> FALSE, val |-> <<>>]

NoRet == [done |-> FALSE, ok |-> FALSE, val |-> <<>>]

Unit == <<>>

Idle == pc = "idle" /\ nops < MaxOps

ioVars == <<pipe, eof, owed>>

\* the frame of a new call
NewFrame(name, a) ==
    /\ nops' = nops + 1
    /\ op' = name
    /\ arg' = a
    /\ fen' = <<>>
    /\ previous_line' = None
    /\ lines' = <<>>
    /\ fenLine' = NoLine
    /\ last' = NoLine
    /\ readForeign' = FALSE
    /\ seen' = <<>>
    /\ before' = IF name \in {"get_fen", "ensure_ready"}
                 THEN [op |-> op, arg |-> arg, ok |-> ret.ok, val |-> ret.val]
                 ELSE NoBefore

\* a write that also takes the oldest waiting line off the channel
DrainingPassThrough(name, a, cmds) ==
    /\ Idle
    /\ NewFrame(name, a)
    /\ IF CanSend
       THEN stdin' = Written(cmds, nops + 1) /\ ret' = OkOf(Unit)
       ELSE UNCHANGED stdin /\ ret' = Err
    /\ chan' = IF chan = <<>> THEN chan ELSE Tail(chan)
    /\ owed' = IF chan = <<>> THEN owed ELSE Tail(owed)
    /\ UNCHANGED <<pos, outq, search, exited, depth, version, pc, inOrder, pipe, eof>>

\* an operation that writes cmds and returns
PassThrough(name, a, cmds) ==
    /\ Idle
    /\ NewFrame(name, a)
    /\ IF CanSend
       THEN stdin' = Written(cmds, nops + 1) /\ ret' = OkOf(Unit)
       ELSE UNCHANGED stdin /\ ret' = Err
    /\ UNCHANGED <<pos, outq, search, exited, chan, depth, version, pc, inOrder>>
    /\ UNCHANGED ioVars

\* an operation that writes cmds, the first built from the arguments
\* `from`, and goes on to read at `to`
CallFrom(name, cmds, to, a, from) ==
    /\ Idle
    /\ NewFrame(name, a)
    /\ IF CanSend
       THEN stdin' = WrittenFrom(cmds, nops + 1, from) /\ pc' = to /\ ret' = NoRet
       ELSE UNCHANGED <<stdin, pc>> /\ ret' = Err
    /\ UNCHANGED <<pos, outq, search, exited, chan, depth, version, inOrder>>
    /\ UNCHANGED ioVars

\* an operation that writes cmds and goes on to read at `to`
Call(name, cmds, to, a) == CallFrom(name, cmds, to, a, <<>>)

\* read_line returns a line
Read ==
    /\ chan # <<>>
    /\ chan' = Recv(chan).rest
    /\ last' = Recv(chan).line
    /\ owed' = Tail(owed)
    /\ inOrder' = (inOrder /\ Recv(chan).line = Head(owed))
    /\ readForeign' = (readForeign \/ Recv(chan).line.op # nops)

Reading == pc \in {"ready", "fen_scan", "fen_drain", "out_scan", "disp_scan"}

\* read_line with the channel empty and its sender dropped: recv() is Err
\* and the expect panics
ReadDisconnected ==
    /\ Reading
    /\ chan = <<>>
    /\ eof
    /\ pc' = "panicked"
    /\ UNCHANGED <<depth, version, op, arg, fen, previous_line, lines, ret,
                   nops, last, fenLine, inOrder, readForeign, before, seen, chan>>
    /\ UNCHANGED engineVars
    /\ UNCHANGED ioVars

(***************************************************************************)
(* stockfish.rs: the public operations.  An operation that blocks in       *)
(* read_line is one action for the call (its writes) and one action per    *)
(* line it reads.                                                          *)
(***************************************************************************)
\* self.depth as new sets it
DefaultDepth == 15

Calc == {"go", "go_for", "go_based_on_times"}

\* a probe sent twice
TwoProbes == <<S_isready, S_isready>>

\* ensure_ready: what it writes before its loop
ReadyProbe == <<S_isready>>

EnsureReady == Call("ensure_ready", ReadyProbe, "ready", <<>>)

\* a new game announced without waiting
EagerNewGame == <<S_isready, S_ucinewgame>>

\* setup_for_new_game: what it has written when it starts to wait
SetupOpening == ReadyProbe

SetupForNewGame == Call("setup_for_new_game", SetupOpening, "ready", <<>>)

SetFenPosition ==
    \E f \in Fens : PassThrough("set_fen_position", f, <<SetFenCommand(f)>>)

ResetPosition == PassThrough("reset_position", <<>>, <<S_position_startpos>>)

GetFen == Call("get_fen", <<S_d>>, "fen_scan", <<>>)

PlayMove == Call("play_move", <<S_d>>, "fen_scan", S_e2e4)

PlayMoves ==
    \E moves \in MoveLists : Call("play_moves", <<S_d>>, "fen_scan", Join(moves, SP))

\* go writes its command and get_engine_output starts with get_fen's "d"
Go == Call("go", <<GoCommand(depth), S_d>>, "fen_scan", <<>>)

\* a stop sent before the sleep
GoThenStop == <<S_go, S_stop>>

\* go_for: what it writes before it sleeps
GoForOpening == <<S_go>>

\* go_for writes "go" and sleeps
GoFor == Call("go_for", GoForOpening, "sleep", <<>>)

GoBasedOnTimes ==
    \E white_time \in WhiteTimes, black_time \in BlackTimes :
        CallFrom("go_based_on_times", <<GoTimesCommand(white_time, black_time), S_d>>,
                 "fen_scan", <<>>, <<white_time, black_time>>)

SetDepth ==
    /\ Idle
    /\ NewFrame("set_depth", <<>>)
    /\ \E d \in Depths : depth' = d
    /\ ret' = OkOf(Unit)
    /\ UNCHANGED <<version, pc, inOrder, chan>>
    /\ UNCHANGED engineVars
    /\ UNCHANGED ioVars

GetBoardDisplay == Call("get_board_display", <<S_d>>, "disp_scan", <<>>)

PrintBoard == Call("print_board", <<S_d>>, "disp_scan", <<>>)

SetOption == PassThrough("set_option", <<>>, <<OptionCommand(S_Threads, U32ToString(4))>>)

SetHash == PassThrough("set_hash", <<>>, <<OptionCommand(S_Hash, U32ToString(64))>>)

SetThreads == PassThrough("set_threads", <<>>, <<OptionCommand(S_Threads, U32ToString(16))>>)

SetElo ==
    PassThrough("set_elo", <<>>, <<OptionCommand(S_UCI_LimitStrength, S_true),
                             OptionCommand(S_Elo, U32ToString(1450))>>)

SetSkillLevel ==
    PassThrough("set_skill_level", <<>>, <<OptionCommand(S_UCI_LimitStrength, S_false),
                                     OptionCommand(S_Skill_Level, U32ToString(10))>>)

Quit == PassThrough("quit", <<>>, <<S_quit>>)

\* uci_send with a command of the caller's that the engine answers with no
\* line (its documentation leaves the reply of any other to the caller)
UciSend == PassThrough("uci_send", <<>>, <<S_ucinewgame>>)

stepFrame == <<pos, outq, search, exited, pipe, eof, depth, version, nops, op, arg,
               before>>

\* a write at the end of a step, and what the operation then returns
WriteAndReturn(cmds) ==
    IF CanSend
    THEN stdin' = Written(cmds, nops) /\ ret' = OkOf(Unit)
    ELSE UNCHANGED stdin /\ ret' = Err

\* ensure_ready (and setup_for_new_game after it): one turn of the loop
ReadyStep ==
    /\ pc = "ready"
    /\ Read
    /\ IF IsReadyOk(Recv(chan).line.text)
       THEN /\ pc' = "idle"
            /\ IF op = "setup_for_new_game"
               THEN WriteAndReturn(<<S_ucinewgame>>)
               ELSE ret' = OkOf(Unit) /\ UNCHANGED stdin
       ELSE UNCHANGED <<pc, ret, stdin>>
    /\ UNCHANGED <<fen, previous_line, lines, fenLine, seen>>
    /\ UNCHANGED stepFrame

\* get_fen: one turn of the outer loop
FenScanStep ==
    /\ pc = "fen_scan"
    /\ Read
    /\ IF IsFenLine(Recv(chan).line.text)
       THEN /\ fen' = FenPayload(Recv(chan).line.text)
            /\ fenLine' = Recv(chan).line
            /\ pc' = "fen_drain"
       ELSE UNCHANGED <<fen, fenLine, pc>>
    /\ UNCHANGED <<previous_line, lines, ret, stdin, seen>>
    /\ UNCHANGED stepFrame

\* get_fen: one turn of the inner loop; when it ends get_fen returns fen to
\* the caller or to play_move, play_moves or get_engine_output
FenDrainStep ==
    /\ pc = "fen_drain"
    /\ Read
    /\ IF IsDrainEnd(Recv(chan).line.text)
       THEN IF op \in Calc
            THEN /\ pc' = "out_scan"
                 /\ UNCHANGED <<ret, stdin>>
            ELSE IF op \in {"play_move", "play_moves"}
            THEN /\ pc' = "idle"
                 /\ WriteAndReturn(<<PositionCommand(fen, arg)>>)
            ELSE /\ pc' = "idle"
                 /\ ret' = OkOf(fen)
                 /\ UNCHANGED stdin
       ELSE UNCHANGED <<pc, ret, stdin>>
    /\ UNCHANGED <<fen, fenLine, previous_line, lines, seen>>
    /\ UNCHANGED stepFrame

\* go_for: the sleep ends; "stop" is written and get_engine_output starts
\* with get_fen's "d"
GoForWake ==
    /\ pc = "sleep"
    /\ IF CanSend
       THEN /\ stdin' = Written(<<S_stop, S_d>>, nops)
            /\ pc' = "fen_scan"
            /\ UNCHANGED ret
       ELSE /\ pc' = "idle"
            /\ ret' = Err
            /\ UNCHANGED stdin
    /\ UNCHANGED <<fen, fenLine, previous_line, lines, chan, last, owed, inOrder,
                   readForeign, seen>>
    /\ UNCHANGED stepFrame

\* get_engine_output: one turn of its loop
OutScanStep ==
    /\ pc = "out_scan"
    /\ Read
    /\ seen' = Append(seen, Recv(chan).line.text)
    /\ LET line == Recv(chan).line.text
       IN  IF ~IsTerminal(line)
           THEN /\ previous_line' = Remember(previous_line, line)
                /\ UNCHANGED <<pc, ret>>
           ELSE /\ UNCHANGED previous_line
                /\ IF Extract(previous_line, line, fen).panic
                   THEN pc' = "panicked" /\ UNCHANGED ret
                   ELSE /\ pc' = "idle"
                        /\ ret' = OkOf(Extract(previous_line, line, fen).out)
    /\ UNCHANGED <<fen, fenLine, lines, stdin>>
    /\ UNCHANGED stepFrame

\* get_board_display (print_board prints what it returns): one turn of its
\* loop
DisplayStep ==
    /\ pc = "disp_scan"
    /\ Read
    /\ LET line == Recv(chan).line.text
       IN  IF line = <<>>
           THEN UNCHANGED <<pc, ret, lines>>
           ELSE IF IsFenLine(line)
           THEN /\ pc' = "idle"
                /\ ret' = OkOf(Join(lines, NL))
                /\ UNCHANGED lines
           ELSE /\ lines' = Append(lines, line)
                /\ UNCHANGED <<pc, ret>>
    /\ UNCHANGED <<fen, fenLine, previous_line, stdin, seen>>
    /\ UNCHANGED stepFrame

(***************************************************************************)
(* stockfish.rs: new.  The subprocess is spawned or not; spawned, it      *)
(* prints its first line or closes its output without one.                 *)
(***************************************************************************)
SpawnOutcomes == {"refused", "banner", "silent"}

BannerLine == [text |-> Banner, op |-> 0, re |-> <<>>]

\* new up to rx.recv(): InteractiveProcess::new(..)? and the channel
New ==
    /\ pc = "start"
    /\ \E outcome \in SpawnOutcomes :
          /\ pc' = IF outcome = "refused" THEN "no_session" ELSE "new_wait"
          /\ ret' = IF outcome = "refused" THEN Err ELSE NoRet
          /\ outq' = IF outcome = "banner" THEN <<BannerLine>> ELSE <<>>
          /\ exited' = (outcome = "silent")
    /\ UNCHANGED <<stdin, pos, search, chan, depth, version, op, arg, fen,
                   previous_line, lines, nops, last, fenLine, inOrder, readForeign,
                   before, seen>>
    /\ UNCHANGED ioVars

\* new takes the first line and builds the session
NewFirstLine ==
    /\ pc = "new_wait"
    /\ Read
    /\ version' = VersionOf(Recv(chan).line.text)
    /\ depth' = DefaultDepth
    /\ pc' = "idle"
    /\ ret' = OkOf(Unit)
    /\ UNCHANGED <<op, arg, fen, previous_line, lines, nops, fenLine, before, seen>>
    /\ UNCHANGED <<pipe, eof>>
    /\ UNCHANGED engineVars

\* new waits for a first line that will not come: recv() is Err and the
\* expect panics
NewNoFirstLine ==
    /\ pc = "new_wait"
    /\ chan = <<>>
    /\ eof
    /\ pc' = "panicked"
    /\ UNCHANGED <<depth, version, op, arg, fen, previous_line, lines, ret,
                   nops, last, fenLine, inOrder, readForeign, before, seen, chan>>
    /\ UNCHANGED engineVars
    /\ UNCHANGED ioVars

(***************************************************************************)
(* The specification.  Init is the program before it calls new: there is   *)
(* no subprocess and no session.                                           *)
(***************************************************************************)
Init ==
    /\ stdin = <<>>
    /\ pos = StartFen
    /\ outq = <<>>
    /\ search = NoSearch
    /\ exited = FALSE
    /\ pipe = <<>>
    /\ eof = FALSE
    /\ chan = <<>>
    /\ depth = DefaultDepth
    /\ version = None
    /\ pc = "start"
    /\ op = "new"
    /\ arg = <<>>
    /\ fen = <<>>
    /\ previous_line = None
    /\ lines = <<>>
    /\ ret = NoRet
    /\ nops = 0
    /\ last = NoLine
    /\ fenLine = NoLine
    /\ owed = <<>>
    /\ inOrder = TRUE
    /\ readForeign = FALSE
    /\ before = NoBefore
    /\ seen = <<>>

Next ==
    \/ New
    \/ NewFirstLine
    \/ NewNoFirstLine
    \/ EngineStep
    \/ EnginePrint
    \/ SearchInfo
    \/ SearchDone
    \/ Reader
    \/ ReaderEof
    \/ EnsureReady
    \/ SetupForNewGame
    \/ SetFenPosition
    \/ ResetPosition
    \/ GetFen
    \/ PlayMove
    \/ PlayMoves
    \/ Go
    \/ GoFor
    \/ GoBasedOnTimes
    \/ SetDepth
    \/ GetBoardDisplay
    \/ PrintBoard
    \/ SetOption
    \/ SetHash
    \/ SetThreads
    \/ SetElo
    \/ SetSkillLevel
    \/ Quit
    \/ UciSend
    \/ ReadyStep
    \/ FenScanStep
    \/ FenDrainStep
    \/ GoForWake
    \/ OutScanStep
    \/ DisplayStep
    \/ ReadDisconnected


Spec == Init /\ [][Next]_vars

(***************************************************************************)
(* The parser alone.  ParseInit is a go call that has written its commands *)
(* and not yet read: the engine has printed everything (the dump of the    *)
(* position, the search's lines around it, its last line) and the reader   *)
(* has forwarded it all.  The lines are drawn from a wider set than the    *)
(* engine above prints.                                                    *)
(***************************************************************************)
ParseFens == {StartFen, FenW, FenB}

\* lines a calculation call cannot extract from
S_info_cut == <<"i", "n", "f", "o", " ", "s", "c", "o", "r", "e", " ", "c", "p">>
S_info_nonint == <<"i", "n", "f", "o", " ", "s", "c", "o", "r", "e", " ", "c", "p", " ", "x">>
S_info_badkind == <<"i", "n", "f", "o", " ", "s", "c", "o", "r", "e", " ", "x", "x", " ", "7">>
S_best_bare == <<"b", "e", "s", "t", "m", "o", "v", "e">>

\* info lines with more than one token "score"
S_info_two == <<"i", "n", "f", "o", " ", "s", "c", "o", "r", "e", " ", "c", "p", " ", "1", "3", " ", "s", "c", "o", "r", "e", " ", "m", "a", "t", "e", " ", "4">>
S_info_late == <<"i", "n", "f", "o", " ", "s", "c", "o", "r", "e", " ", "s", "c", "o", "r", "e", " ", "c", "p", " ", "9">>

ParseInfoLines ==
    {S_info_cp, S_info_mate, S_info_noscore, S_info_cut, S_info_nonint, S_info_badkind,
     S_info_two, S_info_late}

ParseBestLines == {S_best_ponder, S_best, S_best_bare}

SeqsUpTo(S, n) == UNION {[1..k -> S] : k \in 0..n}

SearchLines(texts) == [i \in 1..Len(texts) |-> [text |-> texts[i], op |-> 1, re |-> S_go]]

ParseInit ==
    /\ stdin = <<>>
    /\ pos \in ParseFens
    /\ outq = <<>>
    /\ search = NoSearch
    /\ exited = FALSE
    /\ pipe = <<>>
    /\ eof = FALSE
    /\ \E early \in SeqsUpTo(ParseInfoLines, 1), late \in SeqsUpTo(ParseInfoLines, MaxInfo),
          best \in ParseBestLines :
           /\ Len(early) + Len(late) \in 1..MaxInfo
           /\ chan = SearchLines(early)
                        \o Reply(Dump(pos), Cmd(S_d, 1))
                        \o SearchLines(late \o <<best>>)
    /\ depth = DefaultDepth
    /\ version = VersionOf(Banner)
    /\ pc = "fen_scan"
    /\ op = "go"
    /\ arg = <<>>
    /\ fen = <<>>
    /\ previous_line = None
    /\ lines = <<>>
    /\ ret = NoRet
    /\ nops = 1
    /\ last = NoLine
    /\ fenLine = NoLine
    /\ owed = chan
    /\ inOrder = TRUE
    /\ readForeign = FALSE
    /\ before = NoBefore
    /\ seen = <<>>

ParseNext ==
    \/ FenScanStep
    \/ FenDrainStep
    \/ OutScanStep

ParseSpec == ParseInit /\ [][ParseNext]_vars

(***************************************************************************)
(* Properties.                                                             *)
(***************************************************************************)
LinesOf(q) == {q[i] : i \in DOMAIN q}

\* the lines printed or to be printed that read_line has not returned
InFlight == LinesOf(chan) \cup LinesOf(pipe) \cup LinesOf(outq)

\* the lines of the dump that answers operation n's "d"
DumpOf(n) == {l \in InFlight : l.op = n /\ l.re = S_d}

EnsureReadyReturned ==
    pc = "idle" /\ op \in {"ensure_ready", "setup_for_new_game"} /\ ret.ok

\* C1: when ensure_ready returns, the last line it read is exactly
\* "readyok", the answer to its own probe, and no line printed before it is
\* left: nothing is in the channel or on its way to it.
EnsureReadyBarrier ==
    EnsureReadyReturned =>
        /\ last.text = S_readyok
        /\ last.op = nops
        /\ last.re = S_isready
        /\ InFlight = {}

\* ensure_ready has returned after discarding lines left by an earlier
\* operation
EnsureReadyDiscarded == EnsureReadyReturned /\ op = "ensure_ready" /\ readForeign

\* get_fen has just returned, to the caller or inside another operation
GetFenReturned ==
    \/ pc = "idle" /\ op \in {"get_fen", "play_move", "play_moves"} /\ fenLine # NoLine
    \/ pc = "out_scan" /\ op \in Calc /\ seen = <<>>

\* C2: get_fen returns the text after "Fen: " of the line it matched, it
\* has then read a later line containing "Checkers", and no line of that
\* dump is left unread.
GetFenScanAndDrain ==
    GetFenReturned =>
        /\ SubSeq(fenLine.text, 1, 5) = S_Fen \o <<SP>>
        /\ fen = SubSeq(fenLine.text, 6, Len(fenLine.text))
        /\ (op = "get_fen" => ret.ok /\ ret.val = fen)
        /\ last # fenLine
        /\ Contains(last.text, S_Checkers)
        /\ DumpOf(fenLine.op) = {}

\* get_fen has returned a position that was set
GetFenGaveSetFen ==
    /\ pc = "idle" /\ op = "get_fen" /\ ret.ok
    /\ ret.val = FenB
    /\ Contains(last.text, S_Checkers)

SecondGetFenReturned ==
    /\ pc = "idle" /\ op = "get_fen" /\ ret.ok
    /\ before.op = "get_fen" /\ before.ok

\* C3: of two get_fen calls in a row the second returns the FEN the first
\* returned, and every line it reads answers its own "d".
GetFenRepeatable ==
    SecondGetFenReturned =>
        /\ ret.val = before.val
        /\ ~readForeign
        /\ fenLine.op = nops

\* two get_fen calls in a row have returned, on a position that was set
GetFenTwice == SecondGetFenReturned /\ ret.val \in Fens

RoundTripReturned ==
    /\ pc = "idle" /\ op = "get_fen" /\ ret.ok
    /\ before.op = "set_fen_position" /\ before.ok

\* C4: get_fen right after set_fen_position(f) returns f, whatever was
\* called and completed before.
FenRoundTrip == RoundTripReturned => ret.val = before.arg

\* the round trip has returned after lines left by an earlier operation
RoundTripAfterLeftovers == RoundTripReturned /\ readForeign /\ ret.val = FenB

DisplayReturned ==
    pc = "idle" /\ op \in {"get_board_display", "print_board"} /\ ret.ok

\* C5: when get_board_display returns it has consumed the line containing
\* "Checkers" and no line of its dump is left in the channel.
DisplayDrains ==
    DisplayReturned =>
        /\ Contains(last.text, S_Checkers)
        /\ \A l \in LinesOf(chan) : ~(l.op = nops /\ l.re = S_d)

\* C6: the lines in the channel and on their way to it are the lines
\* printed and not yet read, in the order printed, and every read_line so
\* far returned the oldest of them.
ChannelFifo ==
    /\ inOrder
    /\ owed = chan \o pipe

\* lines have piled up during go_for's sleep, behind lines an earlier
\* operation left
PiledUpInSleep ==
    /\ pc = "sleep"
    /\ Len(chan) >= 3
    /\ Head(chan).re = S_d
    /\ chan[Len(chan)].text \in BestLines

\* the engine has nothing more to do or print and nothing printed is unread
Quiescent ==
    /\ ~exited
    /\ stdin = <<>>
    /\ ~search.running
    /\ InFlight = {}

\* C7: a calculation call finds its terminal line wherever the search's
\* lines fall among the dump's: once the engine has printed everything and
\* all of it is read, the call has returned a result with the best move.
CalcToleratesRace ==
    (op \in Calc /\ Quiescent) =>
        /\ pc = "idle"
        /\ ret.ok
        /\ ret.val.best_move = S_e2e4

\* a calculation call has returned a result
CalcReturned == pc = "idle" /\ op \in Calc /\ ret.ok

\* the side-to-move field of a FEN
SideToMove(f) == Split(f)[2]

\* does the line carry "score", a kind and an integer, in that order
HasTriplet(line) ==
    LET segs == Split(line)
        i    == IndexOf(segs, S_score)
    IN  /\ i > 0
        /\ i + 2 <= Len(segs)
        /\ segs[i + 1] \in {S_cp, S_mate}
        /\ ~ParseI32(segs[i + 2]).none

\* the integer and the kind of the line's score triplet
RawScore(line) ==
    LET segs == Split(line) IN ParseI32(segs[IndexOf(segs, S_score) + 2]).some

RawKind(line) ==
    LET segs == Split(line)
    IN  IF segs[IndexOf(segs, S_score) + 1] = S_cp THEN "Centipawn" ELSE "Mate"

\* C8: the value a calculation call returns is the integer of the score
\* triplet when the side-to-move field of the fetched FEN is "w" and minus
\* that integer when it is "b"; the fetched FEN is the engine's position.
ScoreSignNormalized ==
    CalcReturned =>
        /\ fen = pos
        /\ ret.val.eval.value =
               IF SideToMove(fen) = <<"w">>
               THEN RawScore(previous_line.some)
               ELSE 0 - RawScore(previous_line.some)

\* a calculation call has returned a flipped score
ScoreFlipped ==
    /\ CalcReturned
    /\ SideToMove(fen) = <<"b">>
    /\ RawScore(previous_line.some) = 25
    /\ ret.val.eval.value = 0 - 25

\* get_engine_output has read its terminal line
CalcEnded ==
    /\ op \in Calc
    /\ pc \in {"idle", "panicked"}
    /\ seen # <<>>
    /\ IsTerminal(seen[Len(seen)])

\* does the terminal line carry a token after "bestmove"
HasMove(line) == Len(Split(line)) >= 2

\* C9: the score comes from the last line read before the terminal line
\* and from no other: with a triplet on that line the call returns its
\* kind and its integer (times the multiplier), without one the
\* extraction fails whatever the lines before it carried.  (The call
\* returns only if the terminal line has its move token as well.)
SingleSlotLookback ==
    CalcEnded =>
        LET n == Len(seen)
        IN  IF n >= 2 /\ HasTriplet(seen[n - 1])
            THEN /\ HasMove(seen[n]) <=> pc = "idle"
                 /\ HasMove(seen[n]) => ret.ok
                 /\ HasMove(seen[n]) =>
                        ret.val.eval.eval_type = RawKind(seen[n - 1])
                 /\ HasMove(seen[n]) =>
                        ret.val.eval.value = RawScore(seen[n - 1]) * color_multiplier(fen)
            ELSE pc = "panicked"

\* the extraction has failed on a line without a score that followed a
\* line with one
LookbackMissedEarlierScore ==
    /\ CalcEnded
    /\ pc = "panicked"
    /\ Len(seen) = 3
    /\ HasTriplet(seen[1])
    /\ ~HasTriplet(seen[2])

\* C10: best_move is the token after "bestmove" on the terminal line;
\* pondered_move is the token after "ponder" when the line carries one and
\* is absent otherwise.
TerminalExtraction ==
    CalcReturned =>
        LET t == Split(last.text)
        IN  /\ ret.val.best_move = t[2]
            /\ ret.val.pondered_move =
                   IF Len(t) >= 4 /\ t[3] = S_ponder THEN Some(t[4]) ELSE None

\* the operations that wait for lines
ReadingOps ==
    {"ensure_ready", "setup_for_new_game", "get_fen", "play_move", "play_moves",
     "get_board_display", "print_board"} \cup Calc

\* C11: when the subprocess's output has ended with the channel empty, an
\* operation that waits for a line has not panicked: it is still to get
\* its error or has returned it.
StreamEndIsError ==
    (eof /\ chan = <<>> /\ op \in ReadingOps) =>
        /\ pc # "panicked"
        /\ (pc = "idle" => ret.done /\ ~ret.ok)

\* the lines get_engine_output extracts from are as the protocol has them
WellFormed ==
    /\ Len(seen) >= 2
    /\ HasTriplet(seen[Len(seen) - 1])
    /\ HasMove(seen[Len(seen)])

\* C12: a calculation call that reads its terminal line after lines it
\* cannot extract from (no move token, no complete score triplet, no line
\* buffered) returns an error value and the session is idle again.
MalformedIsError ==
    (CalcEnded /\ ~WellFormed) =>
        /\ pc = "idle"
        /\ ret.done
        /\ ~ret.ok

\* the token after "score" on the line, when an integer follows it
KindToken(line) == Split(line)[IndexOf(Split(line), S_score) + 1]

HasKindAndInteger(line) ==
    LET segs == Split(line)
        i    == IndexOf(segs, S_score)
    IN  i > 0 /\ i + 2 <= Len(segs) /\ ~ParseI32(segs[i + 2]).none

\* from_descriptor has been applied: the buffered line has a token and an
\* integer after "score"
DescriptorApplied ==
    /\ CalcEnded
    /\ Len(seen) >= 2
    /\ HasKindAndInteger(seen[Len(seen) - 1])
    /\ HasMove(seen[Len(seen)])

NewFailureIsError ==
    op = "new" =>
        /\ pc \in {"start", "new_wait", "idle", "no_session"}
        /\ (pc = "idle" => ret.ok /\ ~version.none /\ last = BannerLine)
        /\ (pc = "no_session" => ret.done /\ ~ret.ok)

\* the commands the engine answers with lines
Answered(c) == Split(c.text)[1] \in {S_isready, S_d, S_go}

\* C14: while a command the session has written waits to be read by the
\* engine, no line answering an earlier command is unread or still to be
\* printed: none is in flight, no search is running, and no command
\* written before it is still to be answered.
NoStateBleed ==
    \A i \in DOMAIN stdin :
        /\ InFlight = {}
        /\ ~search.running
        /\ \A j \in 1..(i - 1) : ~Answered(stdin[j])

SecondEnsureReadyReturned ==
    /\ pc = "idle" /\ op = "ensure_ready" /\ ret.ok
    /\ before.op = "ensure_ready" /\ before.ok

\* the commands of operation n the engine has not read yet
Unread(n) == SelectSeq(stdin, LAMBDA c : c.op = n)

\* C15: of two ensure_ready calls in a row each writes one "isready" and
\* the second returns on the "readyok" that answers its own probe: it has
\* read no line answering an earlier command, and nothing is left unread
\* or unanswered when it returns.
EnsureReadyTwice ==
    /\ op = "ensure_ready" => Len(Unread(nops)) <= 1
    /\ (op = "ensure_ready" /\ pc = "ready" /\ last = NoLine /\ Unread(nops) # <<>>) =>
           Unread(nops) = <<Cmd(S_isready, nops)>>
    /\ SecondEnsureReadyReturned =>
           /\ last = [text |-> S_readyok, op |-> nops, re |-> S_isready]
           /\ ~readForeign
           /\ InFlight = {}
           /\ stdin = <<>>

\* C16: setup_for_new_game writes "ucinewgame" only after it has read the
\* "readyok" answering its "isready": while it waits none is written, and
\* none is written by a call that returns an error.
NewGameAfterReady ==
    op = "setup_for_new_game" =>
        /\ (pc # "idle" \/ ~ret.ok) =>
               \A i \in DOMAIN stdin :
                   stdin[i].op = nops => stdin[i].text # S_ucinewgame
        /\ (pc = "ready" /\ last = NoLine /\ Unread(nops) # <<>>) =>
               Unread(nops) = <<Cmd(S_isready, nops)>>
        /\ (pc = "idle" /\ ret.ok) =>
               /\ last = [text |-> S_readyok, op |-> nops, re |-> S_isready]
               /\ Unread(nops) \in {<<>>, <<Cmd(S_ucinewgame, nops)>>}

\* setup_for_new_game has just written "ucinewgame", after discarding
\* lines an earlier operation left
NewGameWritten ==
    /\ pc = "idle" /\ op = "setup_for_new_game" /\ ret.ok
    /\ Unread(nops) = <<Cmd(S_ucinewgame, nops)>>
    /\ readForeign

PlayReturned == pc = "idle" /\ op \in {"play_move", "play_moves"} /\ ret.ok

\* the moves given to the call, as tokens
MovesGiven ==
    IF op = "play_move" THEN <<arg>>
    ELSE CHOOSE m \in MoveLists : Join(m, SP) = arg

\* C18: play_move and play_moves write nothing but "d" until get_fen is
\* complete, and then one command whose tokens are "position", "fen", the
\* tokens of the payload fetched, "moves" and the moves given, in order
\* (with no move, nothing after "moves "); the engine then has the position
\* that command sets.
PositionUpdateProtocol ==
    op \in {"play_move", "play_moves"} =>
        /\ pc \in {"fen_scan", "fen_drain"} => Unread(nops) \in {<<>>, <<Cmd(S_d, nops)>>}
        /\ PlayReturned =>
               /\ fen = SubSeq(fenLine.text, 6, Len(fenLine.text))
               /\ fenLine.op = nops
               /\ Contains(last.text, S_Checkers)
               /\ DumpOf(nops) = {}
               /\ Len(Unread(nops)) <= 1
               /\ stdin # <<>> =>
                     /\ Unread(nops) = <<stdin[Len(stdin)]>>
                     /\ Split(stdin[Len(stdin)].text) =
                            <<S_position, S_fen>> \o Split(fen) \o <<S_moves>>
                            \o (IF MovesGiven = <<>> THEN << <<>> >> ELSE MovesGiven)
               /\ stdin = <<>> => pos = ApplyMoves(fen, Len(MovesGiven))

\* play_moves has just written its command for two moves on a position
\* that was set
PlayedTwoMoves ==
    /\ PlayReturned
    /\ op = "play_moves"
    /\ MovesGiven = <<S_e2e4, S_e7e5>>
    /\ fen = FenB
    /\ Unread(nops) # <<>>

\* C19: go_for writes "go", then sleeps without reading, then writes
\* "stop" (and get_engine_output's "d"), then reads: what it has written
\* and the engine has not read is "go" during the sleep and a tail of
\* "go", "stop", "d" after it, and nothing is read before the sleep ends.
GoForOrdered ==
    op = "go_for" =>
        /\ pc = "sleep" =>
               /\ Unread(nops) \in {<<>>, <<Cmd(S_go, nops)>>}
               /\ last = NoLine
               /\ ~readForeign
        /\ pc # "sleep" =>
               Unread(nops) \in
                   {<<>>, <<Cmd(S_d, nops)>>, <<Cmd(S_stop, nops), Cmd(S_d, nops)>>,
                    <<Cmd(S_go, nops), Cmd(S_stop, nops), Cmd(S_d, nops)>>}

\* go_for has woken and written "stop" with lines of the search waiting in
\* the channel
GoForWoke ==
    /\ op = "go_for"
    /\ pc = "fen_scan"
    /\ Unread(nops) = <<Cmd(S_stop, nops), Cmd(S_d, nops)>>
    /\ last = NoLine
    /\ chan # <<>>

\* the command go_based_on_times is to write for its arguments, as tokens
TimesTokens(white_time, black_time) ==
    <<S_go>>
    \o (IF white_time.none THEN <<>>
        ELSE << <<"w", "t", "i", "m", "e">>, U32ToString(white_time.some) >>)
    \o (IF black_time.none THEN <<>>
        ELSE << <<"b", "t", "i", "m", "e">>, U32ToString(black_time.some) >>)

\* C20: the command go_based_on_times writes is "go", then " wtime <w>"
\* exactly when white_time is Some(w), then " btime <b>" exactly when
\* black_time is Some(b); with neither it is "go".
GoTimesText ==
    \A i \in DOMAIN stdin :
        stdin[i].of # <<>> =>
            /\ Split(stdin[i].text) = TimesTokens(stdin[i].of[1], stdin[i].of[2])
            /\ (stdin[i].of[1].none /\ stdin[i].of[2].none) => stdin[i].text = S_go
            /\ ~stdin[i].of[1].none =>
                   ParseI32(Split(stdin[i].text)[3]) = stdin[i].of[1]
            /\ ~Contains(stdin[i].text, <<SP, SP>>)

\* go_based_on_times has written its command for black's budget alone
GoTimesBlackOnly ==
    /\ op = "go_based_on_times"
    /\ stdin # <<>>
    /\ Head(stdin).of = <<None, Some(10)>>
    /\ Head(stdin).text = S_go \o S__btime_ \o <<"1", "0">>


S_depth == <<"d", "e", "p", "t", "h">>

\* the search commands of the call in progress that the engine has not read
SearchCommands ==
    {i \in DOMAIN stdin : stdin[i].op = nops /\ Split(stdin[i].text)[1] = S_go}

\* go writes "go depth N" with N the configured depth
GoUsesDepth ==
    op = "go" =>
        \A i \in SearchCommands :
            /\ Split(stdin[i].text) = <<S_go, S_depth, U32ToString(depth)>>
            /\ ParseI32(Split(stdin[i].text)[3]) = Some(depth)

\* the configured depth is the default or one that set_depth was given, and
\* set_depth writes no command and reads no line
SetDepthSilent ==
    /\ depth \in {DefaultDepth} \cup Depths
    /\ op = "set_depth" =>
           /\ pc = "idle"
           /\ depth \in Depths
           /\ Unread(nops) = <<>>
           /\ last = NoLine
           /\ ~readForeign

\* the search go_for starts is limited to the configured depth
GoForUsesDepth ==
    op = "go_for" =>
        \A i \in SearchCommands :
            /\ Len(Split(stdin[i].text)) = 3
            /\ Split(stdin[i].text)[2] = S_depth
            /\ ParseI32(Split(stdin[i].text)[3]) = Some(depth)

\* C21: go writes "go depth N", N being the argument of the most recent
\* set_depth or 15 if there was none; set_depth writes nothing and reads
\* nothing; the configured depth also bounds the search of go_for.
ConfiguredDepthGoverns == GoUsesDepth /\ SetDepthSilent /\ GoForUsesDepth


\* where the tokens "score" of a line are
ScorePositions(line) == {i \in 1..Len(Split(line)) : Split(line)[i] = S_score}

\* the leftmost of them
Leftmost(line) ==
    CHOOSE i \in ScorePositions(line) : \A j \in ScorePositions(line) : i <= j

\* C22: when the buffered line has more than one token "score", the kind
\* and the value returned are the two tokens after the leftmost one; later
\* occurrences are ignored, so the extraction fails when those two tokens
\* are not a kind and an integer even if a later "score" is followed by both.
FirstScoreWins ==
    (CalcEnded /\ Len(seen) >= 2 /\ Cardinality(ScorePositions(seen[Len(seen) - 1])) > 1) =>
        LET line == seen[Len(seen) - 1]
            segs == Split(line)
            i    == Leftmost(line)
        IN  IF /\ i + 2 <= Len(segs)
               /\ segs[i + 1] \in {S_cp, S_mate}
               /\ ~ParseI32(segs[i + 2]).none
               /\ HasMove(seen[Len(seen)])
            THEN /\ pc = "idle"
                 /\ ret.ok
                 /\ previous_line = Some(line)
                 /\ EvalType_fmt(ret.val.eval.eval_type) = segs[i + 1]
                 /\ ret.val.eval.value =
                        ParseI32(segs[i + 2]).some * color_multiplier(fen)
            ELSE pc = "panicked"

\* a call has returned the first of two scores on its last info line
TwoScoresFirstReturned ==
    /\ CalcReturned
    /\ previous_line = Some(S_info_two)
    /\ ret.val.eval.eval_type = "Centipawn"
    /\ ret.val.eval.value \in {13, 0 - 13}


\* C23: when the loop of get_engine_output reads the "bestmove" line its
\* single slot holds a line: the position fetch that get_engine_output
\* starts with reads no line of the search, whatever the order in which the
\* engine printed the search's lines and the dump's.
BufferHeldAtBestmove == CalcEnded => ~previous_line.none


\* C24: what get_board_display returns is the non-empty lines the engine
\* printed for this call's "d" before its "Fen:" line, joined by newlines,
\* and no line of another command's reply; two calls in a row on one
\* position therefore return the same string.
DisplayOwnDump ==
    DisplayReturned =>
        /\ ret.val = Join(<<BoardLine(pos)>>, NL)
        /\ ~readForeign


\* the operations that only write
PassOps ==
    {"set_fen_position", "reset_position", "set_option", "set_hash", "set_threads",
     "set_elo", "set_skill_level", "quit", "uci_send"}

\* C25: set_fen_position, reset_position, set_option, set_hash,
\* set_threads, set_elo, set_skill_level, quit and uci_send only write
\* their commands: the call takes no line from the channel and leaves the
\* configured depth and the version string as they were.
PassThroughFrame ==
    /\ [](op \in PassOps => (pc = "idle" /\ last = NoLine /\ ~readForeign /\ seen = <<>>))
    /\ [][(nops' = nops + 1 /\ op' \in PassOps) =>
              /\ chan' = chan
              /\ owed' = owed
              /\ depth' = depth
              /\ version' = version
              /\ Len(stdin') \in {Len(stdin), Len(stdin) + 1, Len(stdin) + 2}
              /\ SubSeq(stdin', 1, Len(stdin)) = stdin
              /\ \A i \in (Len(stdin) + 1)..Len(stdin') : stdin'[i].op = nops']_vars

\* a pass-through call has returned with unread lines waiting in the
\* channel and a depth that set_depth had changed
PassedWithLinesWaiting ==
    /\ op \in PassOps
    /\ ret.ok
    /\ chan # <<>>
    /\ depth = 20
    /\ ~version.none

=============================================================================
